---- MODULE Spec2Model ----
(***************************************************************************)
(* The request path of the AEGIS marketing suite:                          *)
(*   POST /api/process-message  ->  Orchestrator.processRequest            *)
(*        ->  CreativeAgent.generateQuote | SupportAgent.generateResponse  *)
(* Node runs every handler on one thread: a handler runs uninterrupted     *)
(* until it awaits the remote model, and its continuation runs             *)
(* uninterrupted once the remote call has settled.  Several requests can   *)
(* be suspended at their await at the same time.                           *)
(*                                                                         *)
(* Domain of the inputs: a message is text or absent, a userId is an       *)
(* ordinary identifier (not the name of a property every object inherits). *)
(***************************************************************************)
EXTENDS Integers, Sequences, FiniteSets, TLC

(***************************************************************************)
(* JavaScript values, as far as the program handles them.                  *)
(***************************************************************************)
Str(s) == [t |-> "string", v |-> s]
Num(n) == [t |-> "number", v |-> n]
Obj(f) == [t |-> "object", v |-> f]
Lit(w) == [t |-> w, v |-> w]

EmptyFields == [k \in {} |-> Lit("null")]

(***************************************************************************)
(* String.prototype.includes: k occurs in s as a substring (case matters). *)
(***************************************************************************)
includes(s, k) ==
    \E i \in 1..(Len(s) - Len(k) + 1) : SubSeq(s, i, i + Len(k) - 1) = k

(***************************************************************************)
(* JSON.parse, for the grammar the replies use: objects with string keys,  *)
(* strings without escapes, unsigned integers, true/false/null, blanks     *)
(* between tokens.  A parse step yields [ok, val, pos]: pos is the index   *)
(* of the first character not consumed.  JSONparse(s).ok = FALSE stands    *)
(* for the SyntaxError JSON.parse throws.                                  *)
(***************************************************************************)
Digits == <<"0", "1", "2", "3", "4", "5", "6", "7", "8", "9">>

CharAt(s, i) == IF i >= 1 /\ i <= Len(s) THEN SubSeq(s, i, i) ELSE ""

IsDigit(ch) == \E d \in 1..10 : Digits[d] = ch

DigitVal(ch) == (CHOOSE d \in 1..10 : Digits[d] = ch) - 1

ParseFail == [ok |-> FALSE, val |-> Lit("null"), pos |-> 0]

RECURSIVE SkipWs(_, _)
SkipWs(s, i) == IF CharAt(s, i) = " " THEN SkipWs(s, i + 1) ELSE i

RECURSIVE StringEnd(_, _)
\* index of the closing quote of a string whose text starts at i; 0 if none
StringEnd(s, i) ==
    IF i > Len(s) THEN 0
    ELSE IF CharAt(s, i) = "\"" THEN i
    ELSE IF CharAt(s, i) = "\\" THEN 0
    ELSE StringEnd(s, i + 1)

ParseString(s, i) ==
    IF CharAt(s, i) # "\"" THEN ParseFail
    ELSE LET e == StringEnd(s, i + 1)
         IN  IF e = 0 THEN ParseFail
             ELSE [ok |-> TRUE, val |-> Str(SubSeq(s, i + 1, e - 1)), pos |-> e + 1]

RECURSIVE ParseDigits(_, _, _)
ParseDigits(s, i, acc) ==
    IF IsDigit(CharAt(s, i))
    THEN ParseDigits(s, i + 1, acc * 10 + DigitVal(CharAt(s, i)))
    ELSE [ok |-> TRUE, val |-> Num(acc), pos |-> i]

ParseNumber(s, i) ==
    IF ~IsDigit(CharAt(s, i)) THEN ParseFail
    ELSE IF CharAt(s, i) = "0" /\ IsDigit(CharAt(s, i + 1)) THEN ParseFail
    ELSE ParseDigits(s, i, 0)

ParseLiteral(s, i) ==
    IF SubSeq(s, i, i + 3) = "true" THEN [ok |-> TRUE, val |-> Lit("true"), pos |-> i + 4]
    ELSE IF SubSeq(s, i, i + 3) = "null" THEN [ok |-> TRUE, val |-> Lit("null"), pos |-> i + 4]
    ELSE IF SubSeq(s, i, i + 4) = "false" THEN [ok |-> TRUE, val |-> Lit("false"), pos |-> i + 5]
    ELSE ParseFail

\* fields with key k bound to v; a repeated key keeps the last value
PutField(f, k, v) == [x \in DOMAIN f \cup {k} |-> IF x = k THEN v ELSE f[x]]

RECURSIVE ParseValue(_, _)
RECURSIVE ParseMembers(_, _, _)

\* members of an object from position i (at a key), fields f read so far
ParseMembers(s, i, f) ==
    LET key == ParseString(s, SkipWs(s, i))
    IN  IF ~key.ok THEN ParseFail
        ELSE LET c == SkipWs(s, key.pos)
             IN  IF CharAt(s, c) # ":" THEN ParseFail
                 ELSE LET val == ParseValue(s, c + 1)
                      IN  IF ~val.ok THEN ParseFail
                          ELSE LET n == SkipWs(s, val.pos)
                                   g == PutField(f, key.val.v, val.val)
                               IN  IF CharAt(s, n) = "," THEN ParseMembers(s, n + 1, g)
                                   ELSE IF CharAt(s, n) = "}"
                                        THEN [ok |-> TRUE, val |-> Obj(g), pos |-> n + 1]
                                        ELSE ParseFail

ParseValue(s, i) ==
    LET j  == SkipWs(s, i)
        ch == CharAt(s, j)
    IN  IF ch = "{"
        THEN IF CharAt(s, SkipWs(s, j + 1)) = "}"
             THEN [ok |-> TRUE, val |-> Obj(EmptyFields), pos |-> SkipWs(s, j + 1) + 1]
             ELSE ParseMembers(s, j + 1, EmptyFields)
        ELSE IF ch = "\"" THEN ParseString(s, j)
        ELSE IF IsDigit(ch) THEN ParseNumber(s, j)
        ELSE ParseLiteral(s, j)

JSONparse(s) ==
    LET r == ParseValue(s, 1)
    IN  IF r.ok /\ SkipWs(s, r.pos) = Len(s) + 1
        THEN [ok |-> TRUE, val |-> r.val]
        ELSE [ok |-> FALSE, val |-> Lit("null")]

(***************************************************************************)
(* Program constants.                                                      *)
(***************************************************************************)
HistoryCap == 20

SystemPersona ==
    [role |-> "system",
     content |-> "You are Robyn, a friendly and helpful AI support agent for AEGIS Marketing. Answer the user's questions about marketing services, pricing, and their account. Be concise and helpful. If you don't know something, say so."]

Apology == "I'm experiencing a technical issue right now. Please try again in a moment."

NotUnderstood == "Sorry, I did not understand your request. Please try rephrasing it."

FallbackQuote ==
    Obj([price |-> Num(1000), currency |-> Str("ZAR"),
         breakdown |-> Str("Standard marketing package")])

PromptHead == "Based on this marketing job description: \""

PromptTail == "\", generate a detailed quote in ZAR. The quote should include a breakdown of costs for video, image, and copywriting creation. Format the response as JSON: { \"price\": 2500, \"currency\": \"ZAR\", \"breakdown\": \"1x 30s HD video, 3x social media posts\" }"

(***************************************************************************)
(* Bounds of the exploration.  Two workloads: a mixed one, a few requests  *)
(* of every kind with every way the remote model can answer, and a long    *)
(* one, a scripted conversation that outgrows the history cap.             *)
(***************************************************************************)
MaxRequests == 2

MaxExchanges == 13

UserIds == {"u1", "u2"}

Connections == {"a", "b"}

Workloads == {"mixed", "long"}

Undefined == Lit("undefined")

SupportMessages == { Str("I need help"), Str("a question about support") }

OtherMessages ==
    { Undefined, Str(""), Str("hello there"), Str("Logo design"),
      Str("please create ad copy"), Str("make a video for me"),
      Str("help with my logo") }

ChatReplies == {"Sure, happy to help.", "I don't know."}

QuoteReplies ==
    { "{\"price\":3000,\"currency\":\"ZAR\",\"breakdown\":\"1 video\"}",
      "{ \"price\" : 2500, \"currency\" : \"ZAR\" }",
      "Here is your quote: R3000",
      "{\"price\":3000,\"curr" }

VARIABLES
    workload,             \* which workload the clients run
    nreq,                 \* requests received so far
    conversationHistory,  \* SupportAgent's store: userId -> list of turns
    pc,                   \* where each connection's handler stands
    body,                 \* req.body of the connection's request
    messages,             \* the message list the handler sent to the remote model
    remote,               \* the remote call of the handler: none, pending or settled
    attempts,             \* remote calls the handler issued for its request
    response,             \* the HTTP response written
    log,                  \* per userId, the exchanges that succeeded, in completion order
    overlapped            \* per userId, whether two generateResponse calls ever overlapped

vars == << workload, nreq, conversationHistory, pc, body, messages, remote,
           attempts, response, log, overlapped >>

NoBody == [message |-> Undefined, userId |-> ""]

NoRemote == [kind |-> "none", content |-> ""]

Pending == [kind |-> "pending", content |-> ""]

NoResponse == [status |-> 0, body |-> Undefined]

UserTurn(text) == [role |-> "user", content |-> text]

AssistantTurn(text) == [role |-> "assistant", content |-> text]

\* the turns stored for userId; a userId without an entry has none
History(userId) ==
    IF userId \in DOMAIN conversationHistory THEN conversationHistory[userId] ELSE << >>

Init ==
    /\ workload \in Workloads
    /\ nreq = 0
    /\ conversationHistory = [u \in {} |-> << >>]
    /\ pc = [c \in Connections |-> "idle"]
    /\ body = [c \in Connections |-> NoBody]
    /\ messages = [c \in Connections |-> << >>]
    /\ remote = [c \in Connections |-> NoRemote]
    /\ attempts = [c \in Connections |-> 0]
    /\ response = [c \in Connections |-> NoResponse]
    /\ log = [u \in UserIds |-> << >>]
    /\ overlapped = [u \in UserIds |-> FALSE]

(***************************************************************************)
(* The clients: what the next request can be.                              *)
(***************************************************************************)
Budget == IF workload = "long" THEN MaxExchanges ELSE MaxRequests

\* the long conversation: u1 opens with a question and goes on asking for
\* help; every sixth request, from the third on, is u2's
LongRequest(n) ==
    IF n % 6 = 3 THEN [message |-> Str("support please"), userId |-> "u2"]
    ELSE IF n = 1 THEN [message |-> Str("a question about support"), userId |-> "u1"]
    ELSE [message |-> Str("I need help"), userId |-> "u1"]

Requests ==
    IF workload = "long"
    THEN { LongRequest(nreq + 1) }
    ELSE [message : SupportMessages, userId : UserIds]
             \cup [message : OtherMessages, userId : {"u1"}]

(***************************************************************************)
(* The remote model: how a pending call can settle.  It rejects, resolves  *)
(* with a completion that holds no choice, or resolves with a text.        *)
(***************************************************************************)
Texts(c) ==
    IF pc[c] = "awaitQuote" THEN QuoteReplies
    ELSE IF workload = "long" THEN {"Sure, happy to help."}
    ELSE ChatReplies

Outcomes(c) ==
    {[kind |-> "rejected", content |-> ""]}
        \cup (IF workload = "long" THEN {} ELSE {[kind |-> "nochoice", content |-> ""]})
        \cup {[kind |-> "content", content |-> t] : t \in Texts(c)}

\* choices[0].message.content of a settled call; ok = FALSE when the call
\* rejected or reading the content throws
Completion(r) ==
    IF r.kind = "content" THEN [ok |-> TRUE, content |-> r.content]
    ELSE [ok |-> FALSE, content |-> ""]

(***************************************************************************)
(* Orchestrator.processRequest: the classification.                        *)
(***************************************************************************)
IsCreative(userInput) ==
    includes(userInput, "create ad") \/ includes(userInput, "make a video")
        \/ includes(userInput, "logo")

IsSupport(userInput) ==
    includes(userInput, "support") \/ includes(userInput, "help")
        \/ includes(userInput, "question")

\* the support keywords tested before the creative ones
ClassifySupportFirst(userInput) ==
    IF IsSupport(userInput) THEN "support"
    ELSE IF IsCreative(userInput) THEN "creative"
    ELSE "unknown"

Classify(userInput) ==
    IF IsCreative(userInput) THEN "creative"
    ELSE IF IsSupport(userInput) THEN "support"
    ELSE "unknown"

Envelope(type, data) == Obj([type |-> Str(type), data |-> data])

(***************************************************************************)
(* SupportAgent: the pure parts.                                           *)
(***************************************************************************)
\* if (!conversationHistory[userId]) conversationHistory[userId] = []
GetOrCreate(store, userId) ==
    [u \in DOMAIN store \cup {userId} |-> IF u \in DOMAIN store THEN store[u] ELSE << >>]

\* the context built from whichever history the store holds first
ContextMessagesAnyUser(store, userId, userMessage) ==
    << SystemPersona >> \o store[CHOOSE u \in DOMAIN store : TRUE]
        \o << UserTurn(userMessage) >>

\* [system persona, ...history, new user turn]
ContextMessages(store, userId, userMessage) ==
    << SystemPersona >> \o store[userId] \o << UserTurn(userMessage) >>

\* the trim that lets one more pair in before it evicts
TrimLate(history) ==
    IF Len(history) > HistoryCap + 2 THEN SubSeq(history, 3, Len(history)) ELSE history

\* splice(0, 1): the trim that evicts one entry
TrimOne(history) ==
    IF Len(history) > HistoryCap THEN SubSeq(history, 2, Len(history)) ELSE history

\* splice(-2, 2): the trim that evicts the newest pair
TrimNewest(history) ==
    IF Len(history) > HistoryCap THEN SubSeq(history, 1, Len(history) - 2) ELSE history

\* if (history.length > 20) history.splice(0, 2)
Trim(history) ==
    IF Len(history) > HistoryCap THEN SubSeq(history, 3, Len(history)) ELSE history

\* the user turn pushed before the await and again after it
RecordExchangeTwice(history, userMessage, aiResponse) ==
    Trim(history \o << UserTurn(userMessage), UserTurn(userMessage),
                       AssistantTurn(aiResponse) >>)

\* the two pushes and the trim of the success path
RecordExchange(history, userMessage, aiResponse) ==
    Trim(history \o << UserTurn(userMessage), AssistantTurn(aiResponse) >>)

\* a catch block that records the user's turn
CatchRecordsUserTurn(history, userMessage) == Append(history, UserTurn(userMessage))

\* the catch block: what becomes of the history when the remote call failed
CatchHistory(history, userMessage) == history

(***************************************************************************)
(* CreativeAgent: the pure parts.                                          *)
(***************************************************************************)
Prompt(jobBrief) == PromptHead \o jobBrief.description \o PromptTail

\* the value generateQuote returns for a settled remote call
QuoteOf(r) ==
    LET completion == Completion(r)
    IN  IF ~completion.ok THEN FallbackQuote
        ELSE LET quote == JSONparse(completion.content)
             IN  IF quote.ok THEN quote.val ELSE FallbackQuote

(***************************************************************************)
(* POST /api/process-message, up to the handler's first await.             *)
(***************************************************************************)
\* message === undefined
OnlyAbsentMissing(message) == message = Undefined

\* !message
MessageMissing(message) == message = Undefined \/ message = Str("")

Reply(status, json) == [status |-> status, body |-> json]

\* res.status(400).json({ error: 'Message is required' })
BadRequest(c) ==
    /\ pc' = [pc EXCEPT ![c] = "responded"]
    /\ response' = [response EXCEPT ![c] = Reply(400, Obj([error |-> Str("Message is required")]))]
    /\ UNCHANGED << conversationHistory, messages, remote, attempts, overlapped >>

\* the else branch of processRequest, and res.json(result)
Unrecognized(c) ==
    /\ pc' = [pc EXCEPT ![c] = "responded"]
    /\ response' = [response EXCEPT ![c] = Reply(200, Envelope("error", Str(NotUnderstood)))]
    /\ UNCHANGED << conversationHistory, messages, remote, attempts, overlapped >>

\* CreativeAgent.generateQuote up to its await
generateQuote(c, jobBrief) ==
    /\ messages' = [messages EXCEPT ![c] = << UserTurn(Prompt(jobBrief)) >>]
    /\ remote' = [remote EXCEPT ![c] = Pending]
    /\ attempts' = [attempts EXCEPT ![c] = @ + 1]
    /\ pc' = [pc EXCEPT ![c] = "awaitQuote"]
    /\ UNCHANGED << conversationHistory, response, overlapped >>

\* SupportAgent.generateResponse up to its await
generateResponse(c, userMessage, userId) ==
    LET store == GetOrCreate(conversationHistory, userId)
    IN  /\ conversationHistory' = store
        /\ messages' = [messages EXCEPT ![c] = ContextMessages(store, userId, userMessage)]
        /\ remote' = [remote EXCEPT ![c] = Pending]
        /\ attempts' = [attempts EXCEPT ![c] = @ + 1]
        /\ pc' = [pc EXCEPT ![c] = "awaitChat"]
        /\ overlapped' = [overlapped EXCEPT ![userId] =
                             @ \/ \E d \in Connections \ {c} :
                                      pc[d] = "awaitChat" /\ body[d].userId = userId]
        /\ UNCHANGED response

\* Orchestrator.processRequest up to the await of the handler it selects
processRequest(c, userInput, userId) ==
    CASE Classify(userInput) = "creative" ->
             generateQuote(c, [description |-> userInput, userId |-> userId])
      [] Classify(userInput) = "support" ->
             generateResponse(c, userInput, userId)
      [] OTHER -> Unrecognized(c)

PostProcessMessage(c) ==
    /\ pc[c] = "idle"
    /\ nreq < Budget
    /\ \E b \in Requests :
          /\ nreq' = nreq + 1
          /\ body' = [body EXCEPT ![c] = b]
          /\ IF MessageMissing(b.message)
             THEN BadRequest(c)
             ELSE processRequest(c, b.message.v, b.userId)
    /\ UNCHANGED << workload, log >>

(***************************************************************************)
(* The remote call of a suspended handler settles.                         *)
(***************************************************************************)
Awaiting(c) == pc[c] \in {"awaitQuote", "awaitChat"}

Settled(c) == remote[c].kind \in {"rejected", "nochoice", "content"}

RemoteSettles(c) ==
    /\ Awaiting(c)
    /\ remote[c].kind = "pending"
    /\ \E o \in Outcomes(c) :
          remote' = [remote EXCEPT ![c] = o]
    /\ UNCHANGED << workload, nreq, conversationHistory, pc, body, messages,
                    attempts, response, log, overlapped >>

(***************************************************************************)
(* The continuations: from the settled await to the response.              *)
(***************************************************************************)
\* a continuation that calls the remote model again after a failure
ResumeQuoteRetrying(c) ==
    /\ pc[c] = "awaitQuote"
    /\ remote[c].kind \in {"rejected", "nochoice", "content"}
    /\ IF remote[c].kind # "content" /\ attempts[c] < 2
       THEN /\ remote' = [remote EXCEPT ![c] = Pending]
            /\ attempts' = [attempts EXCEPT ![c] = @ + 1]
            /\ UNCHANGED << pc, response >>
       ELSE /\ response' = [response EXCEPT ![c] =
                               Reply(200, Envelope("job_quote", QuoteOf(remote[c])))]
            /\ pc' = [pc EXCEPT ![c] = "responded"]
            /\ UNCHANGED << remote, attempts >>
    /\ UNCHANGED << workload, nreq, conversationHistory, body, messages, log, overlapped >>

ResumeQuote(c) ==
    /\ pc[c] = "awaitQuote"
    /\ Settled(c)
    /\ response' = [response EXCEPT ![c] = Reply(200, Envelope("job_quote", QuoteOf(remote[c])))]
    /\ pc' = [pc EXCEPT ![c] = "responded"]
    /\ UNCHANGED << workload, nreq, conversationHistory, body, messages, remote,
                    attempts, log, overlapped >>

ResumeChat(c) ==
    /\ pc[c] = "awaitChat"
    /\ Settled(c)
    /\ LET completion  == Completion(remote[c])
           userId      == body[c].userId
           userMessage == body[c].message.v
       IN  IF completion.ok
           THEN /\ conversationHistory' =
                       [conversationHistory EXCEPT ![userId] =
                           RecordExchange(@, userMessage, completion.content)]
                /\ log' = [log EXCEPT ![userId] =
                              Append(@, [user |-> userMessage,
                                         assistant |-> completion.content])]
                /\ response' = [response EXCEPT ![c] =
                                   Reply(200, Envelope("support_response", Str(completion.content)))]
           ELSE /\ conversationHistory' =
                       [conversationHistory EXCEPT ![userId] = CatchHistory(@, userMessage)]
                /\ log' = log
                /\ response' = [response EXCEPT ![c] =
                                   Reply(200, Envelope("support_response", Str(Apology)))]
    /\ pc' = [pc EXCEPT ![c] = "responded"]
    /\ UNCHANGED << workload, nreq, body, messages, remote, attempts, overlapped >>

\* the response is out; the connection serves the next request
Close(c) ==
    /\ pc[c] = "responded"
    /\ pc' = [pc EXCEPT ![c] = "idle"]
    /\ body' = [body EXCEPT ![c] = NoBody]
    /\ messages' = [messages EXCEPT ![c] = << >>]
    /\ remote' = [remote EXCEPT ![c] = NoRemote]
    /\ attempts' = [attempts EXCEPT ![c] = 0]
    /\ response' = [response EXCEPT ![c] = NoResponse]
    /\ UNCHANGED << workload, nreq, conversationHistory, log, overlapped >>

Next ==
    \E c \in Connections :
        \/ PostProcessMessage(c)
        \/ RemoteSettles(c)
        \/ ResumeQuote(c)
        \/ ResumeChat(c)
        \/ Close(c)

Spec == Init /\ [][Next]_vars

(***************************************************************************)
(* Vocabulary of the properties.                                           *)
(***************************************************************************)
Min(a, b) == IF a < b THEN a ELSE b

MaxStoredExchanges == HistoryCap \div 2

\* roles user, assistant, user, assistant, ... and an even length
Alternates(h) ==
    /\ Len(h) % 2 = 0
    /\ \A i \in 1..Len(h) : h[i].role = (IF i % 2 = 1 THEN "user" ELSE "assistant")

\* the k-th of the most recent Min(N, 10) exchanges that succeeded for u
Recent(u, k) ==
    log[u][Len(log[u]) - Min(Len(log[u]), MaxStoredExchanges) + k]

\* the history holds exactly the most recent Min(N, 10) exchanges, oldest first
ExactlyRecent(u) ==
    /\ Len(History(u)) = 2 * Min(Len(log[u]), MaxStoredExchanges)
    /\ \A k \in 1..Min(Len(log[u]), MaxStoredExchanges) :
          /\ History(u)[2 * k - 1] = UserTurn(Recent(u, k).user)
          /\ History(u)[2 * k] = AssistantTurn(Recent(u, k).assistant)

Responded(c) == pc[c] = "responded"

Replied(c, type) ==
    /\ Responded(c)
    /\ response[c].status = 200
    /\ response[c].body.v.type = Str(type)

Data(c) == response[c].body.v.data

\* the history the handler of c read when it started
Before(c) == SubSeq(messages[c], 2, Len(messages[c]) - 1)

ChatFailed(c) == pc[c] = "awaitChat" /\ remote[c].kind \in {"rejected", "nochoice"}

\* the step is the continuation of c's handler
Returns(c) == Awaiting(c) /\ pc'[c] = "responded"

(***************************************************************************)
(* C1: every stored history has at most 20 entries, in every reachable     *)
(* state, overlapping calls and failed calls included.                     *)
(***************************************************************************)
C1_HistoryAtMostCap == \A u \in UserIds : Len(History(u)) <= HistoryCap

\* two overlapping calls of one user have both succeeded, the second of them evicted
C1_Witness ==
    \E c \in Connections, d \in Connections :
        /\ c # d
        /\ Replied(c, "support_response") /\ Replied(d, "support_response")
        /\ body[c].userId = body[d].userId
        /\ Before(c) = Before(d)
        /\ Data(c) # Str(Apology) /\ Data(d) # Str(Apology)
        /\ Len(log[body[c].userId]) > MaxStoredExchanges
        /\ Len(History(body[c].userId)) = HistoryCap

(***************************************************************************)
(* C2: every stored history alternates user, assistant, ... from a user    *)
(* turn and has even length; a step that changes a full history removes    *)
(* exactly its two oldest entries.                                         *)
(***************************************************************************)
EvictsOldestPair(u) ==
    (History(u)' # History(u) /\ Len(History(u)) = HistoryCap) =>
        /\ Len(History(u)') = HistoryCap
        /\ SubSeq(History(u)', 1, HistoryCap - 2) = SubSeq(History(u), 3, HistoryCap)

C2_AlternationKept ==
    /\ [](\A u \in UserIds : Alternates(History(u)))
    /\ [][\A u \in UserIds : EvictsOldestPair(u)]_vars

\* a history from which a pair was evicted while two of the user's calls overlapped
C2_Witness ==
    \E u \in UserIds :
        /\ Len(log[u]) > MaxStoredExchanges
        /\ Len(History(u)) = HistoryCap
        /\ History(u)[1].role = "user"
        /\ overlapped[u]

(***************************************************************************)
(* C3: when the remote call of generateResponse fails, the call returns    *)
(* the apology and changes no history; when no call of the userId          *)
(* overlapped, the history is then what it was when the call started, the  *)
(* user's own turn not recorded.                                           *)
(***************************************************************************)
FailureLeavesHistory(c) ==
    (ChatFailed(c) /\ Returns(c)) =>
        /\ response'[c] = Reply(200, Envelope("support_response", Str(Apology)))
        /\ \A u \in UserIds : History(u)' = History(u)
        /\ ~overlapped[body[c].userId] => History(body[c].userId)' = Before(c)

C3_FailureLeavesHistory == [][\A c \in Connections : FailureLeavesHistory(c)]_vars

\* a call has failed for a user who has a history
C3_Witness ==
    \E c \in Connections :
        /\ Replied(c, "support_response")
        /\ remote[c].kind \in {"rejected", "nochoice"}
        /\ Data(c) = Str(Apology)
        /\ History(body[c].userId) # << >>
        /\ History(body[c].userId) = Before(c)

(***************************************************************************)
(* C4, as amended: overlapping calls of one userId lose no exchange and    *)
(* duplicate no turn: the history holds each of the most recent            *)
(* Min(N, 10) exchanges that succeeded exactly once, in completion order.  *)
(***************************************************************************)
\* an exchange that succeeded, and that the cap has not evicted, is missing
LostUpdate(u) ==
    \E k \in 1..Min(Len(log[u]), MaxStoredExchanges) :
        \/ Len(History(u)) < 2 * k
        \/ History(u)[2 * k - 1] # UserTurn(Recent(u, k).user)
        \/ History(u)[2 * k] # AssistantTurn(Recent(u, k).assistant)

\* the history holds more turns than the exchanges that succeeded account for
DuplicatedTurn(u) == Len(History(u)) > 2 * Min(Len(log[u]), MaxStoredExchanges)

C4_NoLostNoDuplicate == \A u \in UserIds : ~LostUpdate(u) /\ ~DuplicatedTurn(u)

\* two calls of one user that read the same history have both succeeded
OverlapCompleted(c, d) ==
    /\ c # d
    /\ Replied(c, "support_response") /\ Replied(d, "support_response")
    /\ Data(c) # Str(Apology) /\ Data(d) # Str(Apology)
    /\ body[c].userId = body[d].userId
    /\ Before(c) = Before(d)
    /\ overlapped[body[c].userId]

C4_Witness ==
    \E c \in Connections, d \in Connections :
        /\ OverlapCompleted(c, d)
        /\ Len(History(body[c].userId)) = Len(Before(c)) + 4

(***************************************************************************)
(* C4, as stated: two overlapping calls of one userId leave a lost update  *)
(* or a duplicated turn.                                                   *)
(***************************************************************************)
C4_OverlapLosesOrDuplicates ==
    \A c \in Connections, d \in Connections :
        OverlapCompleted(c, d) =>
            LostUpdate(body[c].userId) \/ DuplicatedTurn(body[c].userId)

(***************************************************************************)
(* C5: a message with a creative keyword goes to the Creative Handler and  *)
(* is answered job_quote, a support keyword beside it or not; otherwise a  *)
(* message with a support keyword goes to the Support Handler and is       *)
(* answered support_response; any other message is answered with the       *)
(* fixed error envelope, no handler called and no history changed.         *)
(***************************************************************************)
CreativeKeywords == {"create ad", "make a video", "logo"}

SupportKeywords == {"support", "help", "question"}

Mentions(c, keywords) == \E k \in keywords : includes(body[c].message.v, k)

Accepted(c) == pc[c] # "idle" /\ body[c].message \notin {Undefined, Str("")}

RoutedByPriority(c) ==
    Accepted(c) =>
        IF Mentions(c, CreativeKeywords)
        THEN \/ pc[c] = "awaitQuote"
             \/ Replied(c, "job_quote")
        ELSE IF Mentions(c, SupportKeywords)
        THEN \/ pc[c] = "awaitChat"
             \/ Replied(c, "support_response")
        ELSE /\ response[c] = Reply(200, Envelope("error", Str(NotUnderstood)))
             /\ Responded(c)
             /\ attempts[c] = 0
             /\ messages[c] = << >>

\* the step that answers with the error envelope changes no history
ErrorChangesNothing(c) ==
    (pc[c] = "idle" /\ Replied(c, "error")') => conversationHistory' = conversationHistory

C5_RoutedByPriority ==
    /\ [](\A c \in Connections : RoutedByPriority(c))
    /\ [][\A c \in Connections : ErrorChangesNothing(c)]_vars

\* a message with a creative and a support keyword was answered job_quote,
\* and one with neither was answered error
C5_Witness ==
    \E c \in Connections, d \in Connections :
        /\ Accepted(c) /\ Accepted(d)
        /\ Mentions(c, CreativeKeywords) /\ Mentions(c, SupportKeywords)
        /\ Replied(c, "job_quote")
        /\ ~Mentions(d, CreativeKeywords) /\ ~Mentions(d, SupportKeywords)
        /\ Replied(d, "error")

(***************************************************************************)
(* C6, as stated: generateQuote always returns a well-formed Quote, and    *)
(* after a failure (the remote call failed, the reply is no JSON, or the   *)
(* JSON lacks one of price, currency, breakdown) exactly the fallback.     *)
(***************************************************************************)
WellFormedQuote(q) ==
    /\ q.t = "object"
    /\ {"price", "currency", "breakdown"} \subseteq DOMAIN q.v
    /\ q.v.price.t = "number"
    /\ q.v.currency.t = "string"
    /\ q.v.breakdown.t = "string"

\* the reply of a settled call is a JSON object with the three keys
CompleteReply(r) ==
    /\ r.kind = "content"
    /\ JSONparse(r.content).ok
    /\ JSONparse(r.content).val.t = "object"
    /\ {"price", "currency", "breakdown"} \subseteq DOMAIN JSONparse(r.content).val.v

C6_QuoteWellFormed ==
    \A c \in Connections :
        Replied(c, "job_quote") =>
            /\ WellFormedQuote(Data(c))
            /\ ~CompleteReply(remote[c]) => Data(c) = FallbackQuote

(***************************************************************************)
(* C8: a handler issues exactly one remote call for its request; once the  *)
(* call has settled, the handler's next step is its return: the static     *)
(* fallback after a failure, the result after a success, and no further    *)
(* remote call.                                                            *)
(***************************************************************************)
OneAttempt(c) ==
    /\ attempts[c] <= 1
    /\ Awaiting(c) => attempts[c] = 1
    /\ (Replied(c, "job_quote") \/ Replied(c, "support_response")) => attempts[c] = 1

Moves(c) ==
    pc'[c] # pc[c] \/ remote'[c] # remote[c] \/ attempts'[c] # attempts[c]

ReturnsAfterSettling(c) ==
    (Awaiting(c) /\ Settled(c) /\ Moves(c)) =>
        /\ Responded(c)'
        /\ attempts'[c] = attempts[c]
        /\ remote'[c] = remote[c]
        /\ (pc[c] = "awaitQuote" /\ remote[c].kind # "content") =>
               response'[c] = Reply(200, Envelope("job_quote", FallbackQuote))
        /\ (pc[c] = "awaitChat" /\ remote[c].kind # "content") =>
               response'[c] = Reply(200, Envelope("support_response", Str(Apology)))
        /\ (pc[c] = "awaitChat" /\ remote[c].kind = "content") =>
               response'[c] = Reply(200, Envelope("support_response", Str(remote[c].content)))
        /\ (pc[c] = "awaitQuote" /\ remote[c].kind = "content") =>
               Replied(c, "job_quote")'

C8_SingleAttempt ==
    /\ [](\A c \in Connections : OneAttempt(c))
    /\ [][\A c \in Connections : ReturnsAfterSettling(c)]_vars

\* a quote and a chat reply were both returned after their one remote call failed
C8_Witness ==
    \E c \in Connections, d \in Connections :
        /\ Replied(c, "job_quote") /\ remote[c].kind = "rejected"
        /\ Data(c) = FallbackQuote /\ attempts[c] = 1
        /\ Replied(d, "support_response") /\ remote[d].kind = "rejected"
        /\ Data(d) = Str(Apology) /\ attempts[d] = 1

(***************************************************************************)
(* C9: a request whose message is absent or empty is answered 400          *)
(* {error: "Message is required"}; the Orchestrator is not invoked for it: *)
(* no remote call is made, no history created or changed.                  *)
(***************************************************************************)
Rejected400(c) ==
    (pc[c] # "idle" /\ body[c].message \in {Undefined, Str("")}) =>
        /\ Responded(c)
        /\ response[c] = Reply(400, Obj([error |-> Str("Message is required")]))
        /\ attempts[c] = 0
        /\ remote[c] = NoRemote
        /\ messages[c] = << >>

Rejected400ChangesNothing(c) ==
    (pc[c] = "idle" /\ pc'[c] # "idle" /\ body'[c].message \in {Undefined, Str("")}) =>
        conversationHistory' = conversationHistory

C9_MessageRequired ==
    /\ [](\A c \in Connections : Rejected400(c))
    /\ [][\A c \in Connections : Rejected400ChangesNothing(c)]_vars

\* an empty and an absent message were both answered 400
C9_Witness ==
    \E c \in Connections, d \in Connections :
        /\ Responded(c) /\ body[c].message = Str("") /\ response[c].status = 400
        /\ Responded(d) /\ body[d].message = Undefined /\ response[d].status = 400

(***************************************************************************)
(* C10: a step changes the history of a userId only as the continuation    *)
(* of a generateResponse call for that userId, and the message list a call *)
(* for a userId sends is the system persona, that userId's history and the *)
(* call's own user turn.                                                   *)
(***************************************************************************)
ChangesOwnHistoryOnly(u) ==
    (History(u)' # History(u)) =>
        \E c \in Connections :
            pc[c] = "awaitChat" /\ Returns(c) /\ body[c].userId = u

SendsOwnHistoryOnly(c) ==
    (pc[c] = "idle" /\ pc'[c] = "awaitChat") =>
        messages'[c] = << SystemPersona >> \o History(body'[c].userId)
                           \o << UserTurn(body'[c].message.v) >>

C10_HistoriesIsolated ==
    [][ /\ \A u \in UserIds : ChangesOwnHistoryOnly(u)
        /\ \A c \in Connections : SendsOwnHistoryOnly(c) ]_vars

\* calls of the two users are in flight together, each user with a history of its own
C10_Witness ==
    \E c \in Connections, d \in Connections :
        /\ pc[c] = "awaitChat" /\ pc[d] = "awaitChat"
        /\ body[c].userId # body[d].userId
        /\ History(body[c].userId) # << >>
        /\ History(body[d].userId) # << >>
        /\ History(body[c].userId) # History(body[d].userId)

(***************************************************************************)
(* C7: a userId without calls has an empty history; after N successful     *)
(* calls that did not overlap the history is exactly the most recent       *)
(* Min(N, 10) exchanges, oldest first, each the user turn and then the     *)
(* reply; no history ever stores the system persona.                       *)
(***************************************************************************)
NoPersonaStored(u) == \A i \in 1..Len(History(u)) : History(u)[i].role # "system"

C7_RecentExchanges ==
    \A u \in UserIds :
        /\ NoPersonaStored(u)
        /\ ~overlapped[u] => ExactlyRecent(u)
        /\ Len(log[u]) = 0 => History(u) = << >>
        /\ (~overlapped[u] /\ Len(log[u]) = 1) => Len(History(u)) = 2

\* more than ten calls of a user have succeeded, none of them overlapping
C7_Witness ==
    \E u \in UserIds :
        /\ ~overlapped[u]
        /\ Len(log[u]) > MaxStoredExchanges
        /\ History(u)[1] # UserTurn(log[u][1].user)

====
